---- MODULE Spec2Model ----
(***************************************************************************)
(* s3rsyncdb.py: S3RSyncDB.backup and the helpers it drives (s3copyfile,   *)
(* etag, read_in_chunks, bucket_ls, s3remove), as a state machine over the *)
(* local backup directory and the destination bucket.                      *)
(***************************************************************************)
EXTENDS Integers, Sequences, FiniteSets, TLC

\* ---------------------------------------------------------------- bounds
MaxFiles == 3       \* file names 1..MaxFiles; name k is the k-th newest
MaxSize  == 1       \* a local file is empty or MaxSize bytes long
MaxDepth == 2       \* rotation_lvl ranges over 1..MaxDepth
MaxParts == 4       \* length of md5_array handed to etag in SpecEtag
MaxChunk == 3       \* distinct chunk contents in SpecEtag
MaxLen == 4         \* length in bytes of the file copied in SpecCopy
MaxChunkSize == 3   \* chunk_size ranges over 1..MaxChunkSize in SpecCopy
MaxPrefixes == 2    \* length of the prefix tuple handed to bucket_ls in SpecLs
MaxPages == 2       \* pages the paginator returns for one prefix in SpecLs

\* conf['chunk_size'] (bytes per read/write buffer)
ChunkSize == 1

Names == 1 .. MaxFiles

\* ------------------------------------------------- Python values and text
None == "<None>"            \* dest_prefix when conf has no 'dest_prefix'
Accounted == -1             \* the None stored in dest_keys[f]

\* '{}'.format(p): None renders as the text None
Format(p) == IF p = None THEN "None" ELSE p

\* An object key 'dir/name' is <<dir, name>>; a key without '/' is <<"", name>>
MkKey(dir, name) == <<dir, name>>

\* ------------------------------------------------------ digests (symbolic)
\* A byte string is a sequence of tokens; hashlib.md5(b) is the token
\* [md5 |-> b], so md5 is injective and nothing else is known about it.
Byte(n) == [lit |-> n]
md5(bytes) == [md5 |-> bytes]
digest(m) == << m >>                 \* m.digest(): the raw 16 bytes, one token
hexdigest(m) == [hex |-> m]          \* m.hexdigest()
Quote == [tok |-> "dquote"]
Dash == [tok |-> "-"]
Dec(k) == [dec |-> k]

RECURSIVE JoinDigests(_)
JoinDigests(md5_array) ==
  IF md5_array = << >> THEN << >>
  ELSE digest(Head(md5_array)) \o JoinDigests(Tail(md5_array))

etag_no_suffix(md5_array) ==
  IF Len(md5_array) < 1 THEN << Quote, hexdigest(md5(<< >>)), Quote >>
  ELSE IF Len(md5_array) = 1 THEN << Quote, hexdigest(md5_array[1]), Quote >>
  ELSE << Quote, hexdigest(md5(JoinDigests(md5_array))), Quote >>

etag(md5_array) ==
  IF Len(md5_array) < 1 THEN << Quote, hexdigest(md5(<< >>)), Quote >>
  ELSE IF Len(md5_array) = 1 THEN << Quote, hexdigest(md5_array[1]), Quote >>
  ELSE << Quote, hexdigest(md5(JoinDigests(md5_array))), Dash,
          Dec(Len(md5_array)), Quote >>

\* ------------------------------------------------------------ read_in_chunks
Min(a, b) == IF a < b THEN a ELSE b

RECURSIVE read_in_chunks(_, _)
read_in_chunks(data, csize) ==
  IF Len(data) = 0 THEN << >>
  ELSE << SubSeq(data, 1, Min(csize, Len(data))) >>
       \o read_in_chunks(SubSeq(data, Min(csize, Len(data)) + 1, Len(data)), csize)

\* file_object.read(n): at most n bytes from the current position
file_read_whole(file_object, n) == file_object

file_read(file_object, n) == SubSeq(file_object, 1, Min(n, Len(file_object)))

\* The bytes of local file f when its size is sz
Content(f, sz) == [k \in 1 .. sz |-> Byte(f)]

RECURSIVE Md5Each(_)
Md5Each(chunks) ==
  IF chunks = << >> THEN << >>
  ELSE << md5(Head(chunks)) >> \o Md5Each(Tail(chunks))

RECURSIVE Flatten(_)
Flatten(chunks) ==
  IF chunks = << >> THEN << >> ELSE Head(chunks) \o Flatten(Tail(chunks))

\* ---------------------------------------------------------------- s3copyfile
DestKeyNeverPrefixed(dest_prefix, key) == MkKey("", key)

DestKey(dest_prefix, key) ==
  IF dest_prefix # None THEN MkKey(Format(dest_prefix), key) ELSE MkKey("", key)

\* lines 88-89 for an instance whose chunk_size is csize
MultipartAtOrAbove(size, csize, disable_multipart) ==
  IF disable_multipart THEN FALSE ELSE size >= csize

MultipartMode(size, csize, disable_multipart) ==
  IF disable_multipart THEN FALSE ELSE size > csize

Multipart(size, disable_multipart) ==
  MultipartMode(size, ChunkSize, disable_multipart)

\* What the store reports for an object written as the given chunks: a
\* multipart upload gets the composite of its parts, a single put the md5 of
\* the whole body.
StoreETag(chunks, multipart) ==
  IF multipart
  THEN << Quote, hexdigest(md5(JoinDigests(Md5Each(chunks)))), Dash,
          Dec(Len(chunks)), Quote >>
  ELSE << Quote, hexdigest(md5(Flatten(chunks))), Quote >>

\* An ETag that is not the digest of what was sent
BadETag == << Quote, hexdigest(md5(<< Byte(0) >>)), Dash, Dec(0), Quote >>

\* The object s3copyfile leaves at dest_key once the sink is closed
Uploaded(f, size) ==
  [Size |-> size,
   ETag |-> StoreETag(read_in_chunks(Content(f, size), ChunkSize),
                      Multipart(size, FALSE))]

calculated_etag(f, size) ==
  etag(Md5Each(read_in_chunks(Content(f, size), ChunkSize)))

EtagsDifferNever(calculated, head) == FALSE

EtagsDiffer(calculated, head) == calculated # head


\* ------------------------------------------------------------------ bucket_ls
\* Keys of the bucket that start with 'prefix/'
bucket_ls(bucket, prefix) == { k \in DOMAIN bucket : k[1] = prefix }

\* re.sub('^prefix/', '', key) on a key listed under 'prefix/'
StripPrefix(prefix, k) == IF k[1] = prefix THEN k[2] ELSE k

\* -------------------------------------------------------------- the listing
getmtime(f) == 0 - f

RECURSIVE SortedByMtime(_)
SortedByMtime(S) ==
  IF S = {} THEN << >>
  ELSE LET newest == CHOOSE f \in S : \A g \in S : getmtime(g) <= getmtime(f)
       IN << newest >> \o SortedByMtime(S \ {newest})

RECURSIVE ListRemove(_, _)
ListRemove(lst, f) ==
  IF lst = << >> THEN << >>
  ELSE IF Head(lst) = f THEN Tail(lst)
  ELSE << Head(lst) >> \o ListRemove(Tail(lst), f)

Elems(lst) == { lst[k] : k \in 1 .. Len(lst) }

\* for f in listing[:]  -- the loop walks the copy, not the list it edits
ZeroLoopOverLiveList(copy, live) == live

ZeroLoopSeq(copy, live) == copy

\* listing[None:rotation_lvl] and listing[rotation_lvl:None]
KeepWindowWhole(lst, n) == lst

KeepWindow(lst, n) == SubSeq(lst, 1, Min(n, Len(lst)))

ExpireWindowOneEarly(lst, n) == SubSeq(lst, n, Len(lst))

ExpireWindow(lst, n) == SubSeq(lst, n + 1, Len(lst))

\* if dest_keys[dk] is not None
IsOrphanIfTruthy(dk_map, dk) == dk_map[dk] # Accounted /\ dk_map[dk] # 0

IsOrphan(dk_map, dk) == dk_map[dk] # Accounted

AdvanceSkipsKeep(ph, i, copy, lst, n) ==
  IF ph = "zero" /\ i <= Len(ZeroLoopSeq(copy, lst)) THEN [pc |-> "zero", idx |-> i]
  ELSE IF ph \in {"zero", "keep"} /\ Len(ExpireWindow(lst, n)) >= 1
       THEN [pc |-> "expire", idx |-> 1]
  ELSE IF ph = "expire" /\ i <= Len(ExpireWindow(lst, n)) THEN [pc |-> "expire", idx |-> i]
  ELSE [pc |-> "orphans", idx |-> 1]

\* Where control is after the loop at position i of phase ph has been left or
\* entered: the next iteration of that loop, or the first one of the next loop
\* that has any (lines 176, 184, 192, 203)
Advance(ph, i, copy, lst, n) ==
  IF ph = "zero" /\ i <= Len(ZeroLoopSeq(copy, lst)) THEN [pc |-> "zero", idx |-> i]
  ELSE IF ph = "zero" /\ Len(KeepWindow(lst, n)) >= 1 THEN [pc |-> "keep", idx |-> 1]
  ELSE IF ph = "keep" /\ i <= Len(KeepWindow(lst, n)) THEN [pc |-> "keep", idx |-> i]
  ELSE IF ph \in {"zero", "keep"} /\ Len(ExpireWindow(lst, n)) >= 1
       THEN [pc |-> "expire", idx |-> 1]
  ELSE IF ph = "expire" /\ i <= Len(ExpireWindow(lst, n)) THEN [pc |-> "expire", idx |-> i]
  ELSE [pc |-> "orphans", idx |-> 1]

\* self.s3remove(dest_bucket=..., key=..., dest_prefix=...): the method is
\* declared without self, so the call fails to bind its arguments
s3remove(bucket, key, dest_prefix) == [raised |-> "TypeError", bucket |-> bucket]

\* ------------------------------------------------------------------- state
VARIABLES
  backup_prefix, rotation_lvl, rm_empty, update, debug,   \* arguments
  local,          \* src_dir: name -> size of the files matching src_pattern
  remote,         \* dest_bucket: key -> [Size, ETag]
  pc,             \* position of the run
  dest_keys,      \* backup's dest_keys dictionary
  listing,        \* backup's listing
  lcopy,          \* listing[:] taken when the zero-length loop starts
  file_size,      \* backup's file_size dictionary
  idx,            \* 1-based position of the current loop
  error,          \* the exception that ended the run
  orphans,        \* keys for which line 204 held
  uploads,        \* files handed to s3copyfile in this run
  os_removed,     \* files os.remove was called on in this run
  s3_removes,     \* files s3remove was called on in this run
  handled,        \* files whose keep/expire iteration finished in this run
  last_check,     \* the comparison of line 102 made last in this run
  prev,           \* how the previous run ended, the file whose copy failed in
                  \* it and, if it was interrupted, how it would have ended
                  \* otherwise, transfer faults aside
  start_local, start_remote, \* directory and bucket when this run started
  start_keep, start_expire,  \* the names this run is to keep and to expire
  md5s, calculated,          \* s3copyfile's md5s list and calculated_etag
  \* s3copyfile called on its own
  source_file,       \* the bytes of the file named source_file
  chunk_size,        \* self.chunk_size
  arg_size,              \* the size argument
  arg_disable_multipart, \* the disable_multipart argument
  multipart,         \* the local multipart
  fin,               \* what fin has not read yet
  sent,              \* the chunks written to s3_destination, in order
  head_etag,              \* head['ETag']
  cpc,               \* position in s3copyfile
  \* bucket_ls called on its own
  arg_prefix,            \* the prefix argument: a str or a tuple of str
  arg_suffix,            \* the suffix argument
  pages,             \* what paginate returns for each Prefix, page by page
  prefixes,          \* the local prefixes
  ls_prefix,         \* 1-based position of key_prefix in prefixes
  ls_page,           \* 1-based position of page in the pages of key_prefix
  yielded,           \* the objects yielded so far, in order
  lpc                \* position in bucket_ls

cfgvars == << backup_prefix, rotation_lvl, rm_empty, update, debug >>
histvars == << start_local, start_remote, start_keep, start_expire >>
etagvars == << md5s, calculated >>
copyvars == << source_file, chunk_size, arg_size, arg_disable_multipart, multipart, fin,
               sent, head_etag, cpc >>
lsvars == << arg_prefix, arg_suffix, pages, prefixes, ls_prefix, ls_page, yielded, lpc >>
helpervars == << copyvars, lsvars >>
runvars == << pc, dest_keys, listing, lcopy, file_size, idx, error, orphans,
              uploads, os_removed, s3_removes, handled, last_check, prev >>
vars == << cfgvars, local, remote, runvars, histvars, etagvars, helpervars >>

NoError == [type |-> "", file |-> 0]
NoCheck == [file |-> 0, calculated |-> << >>, head |-> << >>]
EmptyDict == [n \in {} |-> 0]
Unset == << >>

Put(dict, k, v) == [x \in DOMAIN dict \cup {k} |-> IF x = k THEN v ELSE dict[x]]
Drop(dict, k) == [x \in DOMAIN dict \ {k} |-> dict[x]]

\* An object found in the bucket before the first run, left by an earlier
\* backup of a file of that name
Stored(n) == Uploaded(n, n % (MaxSize + 1))

InitialBuckets(prefix) ==
  { [k \in { MkKey(Format(prefix), n) : n \in S } |-> Stored(k[2])] : S \in SUBSET Names }

InitialDirs == UNION { [S -> {0, MaxSize}] : S \in SUBSET Names }

\* Names listed under the configured prefix, as backup enumerates them
EnumNames(bucket) == { k[2] : k \in bucket_ls(bucket, Format(backup_prefix)) }

\* Files of a directory that the zero-length loop does not drop
NonRemoved(dir) == { f \in DOMAIN dir : ~(rm_empty /\ dir[f] = 0) }

\* The rotation_lvl most recently modified of them
KeepOf(dir) ==
  LET kept == NonRemoved(dir)
  IN { f \in kept :
         Cardinality({ g \in kept : getmtime(g) > getmtime(f) }) < rotation_lvl }

\* The rest of them: the files the expire loop is for
ExpireOf(dir) ==
  LET kept == NonRemoved(dir)
  IN { f \in kept :
         Cardinality({ g \in kept : getmtime(g) > getmtime(f) }) >= rotation_lvl }

\* The key under which backup's enumeration lists name f
EnumKey(f) == MkKey(Format(backup_prefix), f)

\* The end of an uninterrupted run without transfer faults, from directory dir
\* and bucket bkt: what lines 176-201 do when carried through.
RefListing(dir) == SortedByMtime(NonRemoved(dir))

RefStop(dir, bkt) ==
  LET ew == ExpireWindow(RefListing(dir), rotation_lvl)
      hits == { k \in 1 .. Len(ew) : ew[k] \in EnumNames(bkt) }
  IN IF hits = {} THEN Len(ew) ELSE CHOOSE k \in hits : \A h \in hits : k <= h

RefFinalLocal(dir, bkt) ==
  IF ~update THEN DOMAIN dir
  ELSE LET ew == ExpireWindow(RefListing(dir), rotation_lvl)
       IN NonRemoved(dir) \ { ew[k] : k \in 1 .. RefStop(dir, bkt) }

RefFinalRemote(dir, bkt) ==
  IF ~update THEN DOMAIN bkt
  ELSE DOMAIN bkt \cup
       { DestKey(backup_prefix, f) :
           f \in Elems(KeepWindow(RefListing(dir), rotation_lvl)) \ EnumNames(bkt) }

\* s3copyfile and bucket_ls when nothing calls them on their own
IdleCopy ==
  /\ source_file = << >> /\ chunk_size = ChunkSize /\ arg_size = 0
  /\ arg_disable_multipart = FALSE /\ multipart = FALSE
  /\ fin = << >> /\ sent = << >> /\ head_etag = Unset /\ cpc = "off"

IdleLs ==
  /\ arg_prefix = [str |-> ""] /\ arg_suffix = << >> /\ pages = EmptyDict
  /\ prefixes = << >> /\ ls_prefix = 1 /\ ls_page = 1
  /\ yielded = << >> /\ lpc = "off"

IdleRun ==
  /\ pc = "idle" /\ dest_keys = EmptyDict /\ listing = << >> /\ lcopy = << >>
  /\ file_size = EmptyDict /\ idx = 1 /\ error = NoError /\ orphans = {}
  /\ uploads = {} /\ os_removed = {} /\ s3_removes = {} /\ handled = {}
  /\ last_check = NoCheck
  /\ prev = [pc |-> "idle", copy_failed |-> 0, ref_local |-> {}, ref_remote |-> {}]

Init ==
  /\ backup_prefix \in {None, "bk"}
  /\ rotation_lvl \in 1 .. MaxDepth
  /\ rm_empty = TRUE    \* line 256 leaves rm_empty to its default (line 147)
  /\ update \in BOOLEAN
  /\ debug \in {0, 1}
  /\ local \in InitialDirs
  /\ remote \in InitialBuckets(backup_prefix)
  /\ start_local = local /\ start_remote = remote
  /\ start_keep = KeepOf(local) /\ start_expire = ExpireOf(local)
  /\ IdleRun
  /\ md5s = << >> /\ calculated = Unset
  /\ IdleCopy /\ IdleLs

Ended == {"done", "failed", "killed"}
Running == {"zero", "keep", "head", "expire", "expire_s3", "orphans"}

\* lines 158-171: enumerate the bucket, list and sort the directory
StartBackup ==
  /\ pc \in Ended \cup {"idle"}
  /\ LET dir == Format(backup_prefix)
         listed == bucket_ls(remote, dir)
     IN dest_keys' = [n \in { StripPrefix(dir, k) : k \in listed } |->
                        remote[MkKey(dir, n)].Size]
  /\ listing' = SortedByMtime(DOMAIN local)
  /\ lcopy' = listing'
  /\ file_size' = EmptyDict
  /\ pc' = Advance("zero", 1, listing', listing', rotation_lvl).pc
  /\ idx' = Advance("zero", 1, listing', listing', rotation_lvl).idx
  /\ error' = NoError /\ orphans' = {} /\ uploads' = {} /\ os_removed' = {}
  /\ s3_removes' = {} /\ handled' = {} /\ last_check' = NoCheck
  /\ prev' = [pc |-> pc,
               copy_failed |-> IF error.type \in {"Exception", "ClientError"}
                               THEN error.file ELSE 0,
               ref_local |-> IF pc = "killed"
                             THEN RefFinalLocal(start_local, start_remote) ELSE {},
               ref_remote |-> IF pc = "killed"
                              THEN RefFinalRemote(start_local, start_remote) ELSE {}]
  /\ start_local' = local /\ start_remote' = remote
  /\ start_keep' = KeepOf(local) /\ start_expire' = ExpireOf(local)
  /\ UNCHANGED << cfgvars, local, remote, etagvars, helpervars >>

\* lines 176-181: one iteration of the zero-length loop
ZeroStep ==
  /\ pc = "zero"
  /\ idx <= Len(ZeroLoopSeq(lcopy, listing))
  /\ LET f == ZeroLoopSeq(lcopy, listing)[idx]
         sz == local[f]
     IN /\ file_size' = Put(file_size, f, sz)
        /\ IF sz = 0 /\ rm_empty
           THEN /\ listing' = ListRemove(listing, f)
                /\ IF update
                   THEN local' = Drop(local, f) /\ os_removed' = os_removed \cup {f}
                   ELSE UNCHANGED << local, os_removed >>
           ELSE UNCHANGED << listing, local, os_removed >>
  /\ pc' = Advance("zero", idx + 1, lcopy, listing', rotation_lvl).pc
  /\ idx' = Advance("zero", idx + 1, lcopy, listing', rotation_lvl).idx
  /\ UNCHANGED << cfgvars, remote, dest_keys, lcopy, error, orphans, uploads,
                  s3_removes, handled, last_check, prev, histvars, etagvars, helpervars >>

\* lines 184-189 with s3copyfile lines 85-97: decide on one keep-window file
\* and, when it is to be copied, stream it to the bucket
KeepStep ==
  /\ pc = "keep"
  /\ idx <= Len(KeepWindow(listing, rotation_lvl))
  /\ LET f == KeepWindow(listing, rotation_lvl)[idx]
     IN IF f \notin DOMAIN dest_keys
        THEN IF update
             THEN IF f \notin DOMAIN file_size
                  THEN /\ pc' = "failed"
                       /\ error' = [type |-> "KeyError", file |-> f]
                       /\ UNCHANGED << remote, uploads, idx, handled, dest_keys >>
                  ELSE /\ \E obj \in { Uploaded(f, file_size[f]),
                                       [Size |-> file_size[f], ETag |-> BadETag] } :
                            remote' = Put(remote, DestKey(backup_prefix, f), obj)
                       /\ uploads' = uploads \cup {f}
                       /\ pc' = "head"
                       /\ UNCHANGED << idx, handled, dest_keys, error >>
             ELSE /\ pc' = Advance("keep", idx + 1, lcopy, listing, rotation_lvl).pc
                  /\ idx' = Advance("keep", idx + 1, lcopy, listing, rotation_lvl).idx
                  /\ handled' = handled \cup {f}
                  /\ UNCHANGED << remote, uploads, dest_keys, error >>
        ELSE /\ dest_keys' = [dest_keys EXCEPT ![f] = Accounted]
             /\ pc' = Advance("keep", idx + 1, lcopy, listing, rotation_lvl).pc
             /\ idx' = Advance("keep", idx + 1, lcopy, listing, rotation_lvl).idx
             /\ handled' = handled \cup {f}
             /\ UNCHANGED << remote, uploads, error >>
  /\ UNCHANGED << cfgvars, local, listing, lcopy, file_size, orphans, os_removed,
                  s3_removes, last_check, prev, histvars, etagvars, helpervars >>

\* s3copyfile lines 99-103: compare the calculated ETag with head_object's
CopyHead ==
  /\ pc = "head"
  /\ LET f == KeepWindow(listing, rotation_lvl)[idx]
         calc == calculated_etag(f, file_size[f])
         head == remote[DestKey(backup_prefix, f)].ETag
     IN /\ last_check' = [file |-> f, calculated |-> calc, head |-> head]
        /\ IF EtagsDiffer(calc, head)
           THEN /\ pc' = "failed"
                /\ error' = [type |-> "Exception", file |-> f]
                /\ UNCHANGED << idx, handled >>
           ELSE /\ pc' = Advance("keep", idx + 1, lcopy, listing, rotation_lvl).pc
                /\ idx' = Advance("keep", idx + 1, lcopy, listing, rotation_lvl).idx
                /\ handled' = handled \cup {f}
                /\ UNCHANGED error
  /\ UNCHANGED << cfgvars, local, remote, dest_keys, listing, lcopy, file_size,
                  orphans, uploads, os_removed, s3_removes, prev, histvars,
                  etagvars, helpervars >>

\* s3copyfile line 101: head_object itself fails
HeadFails ==
  /\ pc = "head"
  /\ pc' = "failed"
  /\ error' = [type |-> "ClientError", file |-> KeepWindow(listing, rotation_lvl)[idx]]
  /\ UNCHANGED << cfgvars, local, remote, dest_keys, listing, lcopy, file_size,
                  idx, orphans, uploads, os_removed, s3_removes, handled,
                  last_check, prev, histvars, etagvars, helpervars >>

\* lines 192-194: remove one expire-window file from the directory
ExpireLocal ==
  /\ pc = "expire"
  /\ idx <= Len(ExpireWindow(listing, rotation_lvl))
  /\ LET f == ExpireWindow(listing, rotation_lvl)[idx]
     IN IF update
        THEN local' = Drop(local, f) /\ os_removed' = os_removed \cup {f}
        ELSE UNCHANGED << local, os_removed >>
  /\ pc' = "expire_s3"
  /\ UNCHANGED << cfgvars, remote, dest_keys, listing, lcopy, file_size, idx,
                  error, orphans, uploads, s3_removes, handled, last_check, prev, histvars, etagvars, helpervars >>

\* lines 196-201: the same file in the bucket
ExpireRemote ==
  /\ pc = "expire_s3"
  /\ LET f == ExpireWindow(listing, rotation_lvl)[idx]
     IN IF f \notin DOMAIN dest_keys
        THEN /\ pc' = Advance("expire", idx + 1, lcopy, listing, rotation_lvl).pc
             /\ idx' = Advance("expire", idx + 1, lcopy, listing, rotation_lvl).idx
             /\ handled' = handled \cup {f}
             /\ UNCHANGED << dest_keys, error, s3_removes, remote >>
        ELSE /\ dest_keys' = [dest_keys EXCEPT ![f] = Accounted]
             /\ IF debug >= 1
                THEN \* line 200 formats dest_prefix, a name backup does not have
                     /\ pc' = "failed"
                     /\ error' = [type |-> "NameError", file |-> f]
                     /\ UNCHANGED << idx, handled, s3_removes, remote >>
                ELSE IF update
                THEN LET r == s3remove(remote, f, backup_prefix)
                     IN /\ s3_removes' = s3_removes \cup {f}
                        /\ remote' = r.bucket
                        /\ IF r.raised # ""
                           THEN /\ pc' = "failed"
                                /\ error' = [type |-> r.raised, file |-> f]
                                /\ UNCHANGED << idx, handled >>
                           ELSE /\ pc' = Advance("expire", idx + 1, lcopy, listing,
                                               rotation_lvl).pc
                                /\ idx' = Advance("expire", idx + 1, lcopy, listing,
                                                rotation_lvl).idx
                                /\ handled' = handled \cup {f}
                                /\ UNCHANGED error
                ELSE /\ pc' = Advance("expire", idx + 1, lcopy, listing, rotation_lvl).pc
                     /\ idx' = Advance("expire", idx + 1, lcopy, listing, rotation_lvl).idx
                     /\ handled' = handled \cup {f}
                     /\ UNCHANGED << error, s3_removes, remote >>
  /\ UNCHANGED << cfgvars, local, listing, lcopy, file_size, orphans, uploads,
                  os_removed, last_check, prev, histvars, etagvars, helpervars >>

\* lines 203-207: what is left unmarked in dest_keys
OrphanPass ==
  /\ pc = "orphans"
  /\ orphans' = { dk \in DOMAIN dest_keys : IsOrphan(dest_keys, dk) }
  /\ pc' = "done"
  /\ UNCHANGED << cfgvars, local, remote, dest_keys, listing, lcopy, file_size,
                  idx, error, uploads, os_removed, s3_removes, handled,
                  last_check, prev, histvars, etagvars, helpervars >>

\* the process is stopped from outside between two steps; the run started
\* after an interruption is left to come to its end
Interrupt ==
  /\ pc \in Running
  /\ prev.pc # "killed"
  /\ pc' = "killed"
  /\ UNCHANGED << cfgvars, local, remote, dest_keys, listing, lcopy, file_size,
                  idx, error, orphans, uploads, os_removed, s3_removes, handled,
                  last_check, prev, histvars, etagvars, helpervars >>

Next ==
  \/ StartBackup
  \/ ZeroStep
  \/ KeepStep
  \/ CopyHead
  \/ HeadFails
  \/ ExpireLocal
  \/ ExpireRemote
  \/ OrphanPass
  \/ Interrupt

Spec == Init /\ [][Next]_vars


\* ------------------------------------------- etag on its own (lines 92-100)
ChunkContents == { << Byte(c) >> : c \in 1 .. MaxChunk }

InitEtag ==
  /\ backup_prefix = None /\ rotation_lvl = 1 /\ rm_empty = TRUE
  /\ update = TRUE /\ debug = 0
  /\ local = EmptyDict /\ remote = EmptyDict
  /\ start_local = local /\ start_remote = remote
  /\ start_keep = KeepOf(local) /\ start_expire = ExpireOf(local)
  /\ IdleRun
  /\ md5s = << >> /\ calculated = Unset
  /\ IdleCopy /\ IdleLs

\* line 96: md5s.append(hashlib.md5(chunk))
ObserveChunk ==
  /\ calculated = Unset
  /\ Len(md5s) < MaxParts
  /\ \E chunk \in ChunkContents : md5s' = Append(md5s, md5(chunk))
  /\ UNCHANGED << cfgvars, local, remote, runvars, histvars, calculated,
                  helpervars >>

\* line 100: calculated_etag = self.etag(md5s)
Finalize ==
  /\ calculated = Unset
  /\ calculated' = etag(md5s)
  /\ UNCHANGED << cfgvars, local, remote, runvars, histvars, md5s,
                  helpervars >>

NextEtag == ObserveChunk \/ Finalize

SpecEtag == InitEtag /\ [][NextEtag]_vars


\* ------------------------------------- s3copyfile on its own (lines 73-103)
\* No backup run is under way
NoBackup ==
  /\ backup_prefix = None /\ rotation_lvl = 1 /\ rm_empty = TRUE
  /\ update = TRUE /\ debug = 0
  /\ local = EmptyDict /\ remote = EmptyDict
  /\ start_local = local /\ start_remote = remote
  /\ start_keep = KeepOf(local) /\ start_expire = ExpireOf(local)
  /\ IdleRun

Alphabet == { Byte(1), Byte(2) }

FileContents == UNION { [1 .. L -> Alphabet] : L \in 0 .. MaxLen }

\* The caller passes the length of the file as size (line 186)
InitCopy ==
  /\ NoBackup /\ IdleLs
  /\ source_file \in FileContents
  /\ chunk_size \in 1 .. MaxChunkSize
  /\ arg_size = Len(source_file)
  /\ arg_disable_multipart \in BOOLEAN
  /\ multipart = FALSE /\ fin = << >> /\ sent = << >> /\ head_etag = Unset
  /\ cpc = "call"
  /\ md5s = << >> /\ calculated = Unset

\* lines 88-94: choose the transfer mode, open the file and the sink
CopyBegin ==
  /\ cpc = "call"
  /\ multipart' = MultipartMode(arg_size, chunk_size, arg_disable_multipart)
  /\ md5s' = << >>
  /\ fin' = source_file
  /\ sent' = << >>
  /\ cpc' = "stream"
  /\ UNCHANGED << cfgvars, local, remote, runvars, histvars, calculated,
                  source_file, chunk_size, arg_size, arg_disable_multipart, head_etag, lsvars >>

\* lines 51-55 and 95-97: one turn of read_in_chunks and of the loop over it;
\* an empty read ends both, and leaving the with blocks closes the sink
CopyChunk ==
  /\ cpc = "stream"
  /\ LET data == file_read(fin, chunk_size)
     IN IF Len(data) = 0
        THEN /\ cpc' = "check"
             /\ UNCHANGED << md5s, sent, fin >>
        ELSE /\ md5s' = Append(md5s, md5(data))
             /\ sent' = Append(sent, data)
             /\ fin' = SubSeq(fin, Len(data) + 1, Len(fin))
             /\ UNCHANGED cpc
  /\ UNCHANGED << cfgvars, local, remote, runvars, histvars, calculated,
                  source_file, chunk_size, arg_size, arg_disable_multipart, multipart,
                  head_etag, lsvars >>

\* lines 100-103: the store reports the digest of what it was sent in the mode
\* it was sent, or, on a fault, something else
CopyCheck ==
  /\ cpc = "check"
  /\ calculated' = etag(md5s)
  /\ \E reported \in { StoreETag(sent, multipart), BadETag } : head_etag' = reported
  /\ cpc' = IF EtagsDiffer(calculated', head_etag') THEN "raised" ELSE "returned"
  /\ UNCHANGED << cfgvars, local, remote, runvars, histvars, md5s,
                  source_file, chunk_size, arg_size, arg_disable_multipart, multipart,
                  fin, sent, lsvars >>

NextCopy == CopyBegin \/ CopyChunk \/ CopyCheck

SpecCopy == InitCopy /\ [][NextCopy]_vars


\* ------------------------------------- bucket_ls on its own (lines 109-141)
\* An object key is a sequence of text pieces; descriptors carry it as Key
Obj(key) == [Key |-> key]

\* key.endswith(sfx)
endswith(key, sfx) ==
  /\ Len(sfx) <= Len(key)
  /\ SubSeq(key, Len(key) - Len(sfx) + 1, Len(key)) = sfx

\* A page of list_objects: with its Contents, or without that entry
NoContentsPage == [IsTruncated |-> FALSE]

PageSet ==
  { NoContentsPage } \cup
  { [Contents |-> c] :
      c \in { << Obj(<< "db1", ".gz" >>) >>, << Obj(<< "db2", ".sql" >>) >>,
              << Obj(<< "db1", ".gz" >>), Obj(<< "db2", ".sql" >>) >> } }

PageSeqs == UNION { [1 .. n -> PageSet] : n \in 1 .. MaxPages }

LsPrefixNames == { "a/", "b/" }

PrefixArgs ==
  { [str |-> p] : p \in LsPrefixNames } \cup
  { [tuple |-> t] : t \in UNION { [1 .. n -> LsPrefixNames] : n \in 0 .. MaxPrefixes } }

\* contents = page["Contents"], which raises KeyError when the entry is missing
page_contents_other_error(page) ==
  IF "Contents" \in DOMAIN page
  THEN [raised |-> "", value |-> page.Contents]
  ELSE [raised |-> "TypeError", value |-> << >>]

page_contents(page) ==
  IF "Contents" \in DOMAIN page
  THEN [raised |-> "", value |-> page.Contents]
  ELSE [raised |-> "KeyError", value |-> << >>]

\* The objects of one page that pass the test of line 139, in page order
Matching(contents, sfx) == SelectSeq(contents, LAMBDA obj : endswith(obj.Key, sfx))

InitLs ==
  /\ NoBackup /\ IdleCopy
  /\ md5s = << >> /\ calculated = Unset
  /\ arg_prefix \in PrefixArgs
  /\ arg_suffix \in { << >>, << ".gz" >> }
  /\ pages \in [LsPrefixNames -> PageSeqs]
  /\ prefixes = << >> /\ ls_prefix = 1 /\ ls_page = 1
  /\ yielded = << >> /\ lpc = "call"

\* lines 116-129: a single prefix becomes a tuple of one; the first prefix, if
\* there is one, is handed to the paginator
LsBegin ==
  /\ lpc = "call"
  /\ prefixes' = IF "str" \in DOMAIN arg_prefix
                 THEN << arg_prefix.str >> ELSE arg_prefix.tuple
  /\ lpc' = IF Len(prefixes') >= 1 THEN "page" ELSE "exhausted"
  /\ UNCHANGED << cfgvars, local, remote, runvars, histvars, etagvars, copyvars,
                  arg_prefix, arg_suffix, pages, ls_prefix, ls_page, yielded >>

\* lines 131-141: one page of the current prefix. A page without Contents
\* leaves the loop over the pages of this prefix; any other page has its
\* matching objects yielded; then comes the next page, the next prefix or
\* the end of the generator.
LsPage ==
  /\ lpc = "page"
  /\ LET key_prefix == prefixes[ls_prefix]
         page == pages[key_prefix][ls_page]
         got == page_contents(page)
         more == got.raised = "" /\ ls_page < Len(pages[key_prefix])
     IN IF got.raised \notin {"", "KeyError"}
        THEN /\ lpc' = "raised"
             /\ UNCHANGED << yielded, ls_prefix, ls_page >>
        ELSE /\ yielded' = yielded \o Matching(got.value, arg_suffix)
             /\ ls_page' = IF more THEN ls_page + 1 ELSE 1
             /\ ls_prefix' = IF more THEN ls_prefix ELSE ls_prefix + 1
             /\ lpc' = IF more \/ ls_prefix < Len(prefixes) THEN "page" ELSE "exhausted"
  /\ UNCHANGED << cfgvars, local, remote, runvars, histvars, etagvars, copyvars,
                  arg_prefix, arg_suffix, pages, prefixes >>

NextLs == LsBegin \/ LsPage

SpecLs == InitLs /\ [][NextLs]_vars


\* ================================================================== claims
PostZero == {"keep", "head", "expire", "expire_s3", "orphans", "done", "failed"}

C2_SecondRunDoesNothing ==
  prev.pc = "done" =>
     uploads = {} /\ os_removed = {} /\ s3_removes = {}

\* C3: when the ETag head_object reports after the upload of f differs from
\* the calculated one, f is reported as failed, and the run neither marks f in
\* dest_keys nor counts its copy as done.
C3_MismatchIsFailure ==
  (last_check.file # 0 /\ last_check.calculated # last_check.head) =>
     /\ pc = "failed"
     /\ error = [type |-> "Exception", file |-> last_check.file]
     /\ last_check.file \notin DOMAIN dest_keys
     /\ last_check.file \notin handled

C3_Witness ==
  /\ last_check.file # 0 /\ last_check.calculated # last_check.head
  /\ pc = "failed" /\ handled # {}

\* C4: a file whose copy failed in the previous run (digest mismatch or failed
\* head_object) is uploaded again by the following run.
C4_FailedCopyIsRetried ==
  (/\ prev.pc = "failed" /\ prev.copy_failed # 0
   /\ pc \in {"expire", "expire_s3", "orphans", "done"}) =>
     prev.copy_failed \in uploads

\* C5: a digest mismatch on one keep-window file does not end the run: every
\* other file of the listing still gets its keep or expire iteration.
C5_MismatchDoesNotAbort ==
  (/\ pc \in {"done", "failed"}
   /\ last_check.file # 0 /\ last_check.calculated # last_check.head) =>
     Elems(listing) \ {last_check.file} \subseteq handled

\* RefFinalLocal and RefFinalRemote describe the runs of the model: a run that
\* is not interrupted and meets no transfer fault ends as they say.
RefAgrees ==
  (pc \in {"done", "failed"} /\ error.type \notin {"Exception", "ClientError"}) =>
     /\ DOMAIN local = RefFinalLocal(start_local, start_remote)
     /\ DOMAIN remote = RefFinalRemote(start_local, start_remote)

\* C6: a run interrupted at any point, followed by a complete run, ends with
\* the same local files and the same remote keys as an uninterrupted run from
\* the state the interrupted run started in.
C6_RerunSameAsUninterrupted ==
  (prev.pc = "killed" /\ pc = "done") =>
     /\ DOMAIN local = prev.ref_local
     /\ DOMAIN remote = prev.ref_remote

\* C7: with rm_empty and update, every zero-length file is removed from the
\* directory and from the listing before the keep/expire split and is never
\* uploaded, so the keep window is made of the newest non-empty files.
C7_EmptyFilesRemoved ==
  (rm_empty /\ update) =>
     /\ \A f \in uploads : start_local[f] # 0
     /\ pc \in PostZero =>
          /\ \A f \in DOMAIN start_local :
               start_local[f] = 0 => f \notin DOMAIN local /\ f \notin Elems(listing)
          /\ Elems(KeepWindow(listing, rotation_lvl)) = KeepOf(start_local)

C7_Witness ==
  /\ rm_empty /\ update /\ pc = "done"
  /\ 1 \in DOMAIN start_local /\ start_local[1] = 0
  /\ 2 \in DOMAIN start_local /\ start_local[2] = 0
  /\ uploads # {}

C9_DryRunWalksAll ==
  ~update =>
     /\ local = start_local /\ remote = start_remote
     /\ uploads = {} /\ os_removed = {} /\ s3_removes = {}
     /\ pc # "failed"

\* C10: etag of no parts is the quoted hex md5 of the empty input; of one part
\* that part's quoted hex digest without suffix; of k >= 2 parts the quoted
\* hex md5 of the k raw digests in order, followed by -k.
C10_CompositeRule ==
  calculated # Unset =>
     /\ Len(md5s) = 0 => calculated = << Quote, [hex |-> [md5 |-> << >>]], Quote >>
     /\ Len(md5s) = 1 => calculated = << Quote, [hex |-> md5s[1]], Quote >>
     /\ Len(md5s) >= 2 =>
          calculated = << Quote, [hex |-> [md5 |-> md5s]], Dash,
                          [dec |-> Len(md5s)], Quote >>

C10_Witness ==
  /\ calculated # Unset /\ Len(md5s) >= 2
  /\ md5s[1] # md5s[2]

\* C14 as stated: every keep-window file whose iteration is over was copied to
\* prefix/f exactly when its name was not enumerated, and an enumerated one
\* was neither uploaded nor removed.
C14_KeepStepAsStated ==
  /\ \A f \in handled \cap start_keep :
        f \notin DOMAIN dest_keys => f \in uploads
  /\ \A f \in uploads :
        /\ f \in start_keep /\ f \notin DOMAIN dest_keys
        /\ EnumKey(f) \in DOMAIN remote
  /\ \A f \in start_keep \cap DOMAIN dest_keys :
        /\ f \notin uploads
        /\ EnumKey(f) \in DOMAIN remote /\ remote[EnumKey(f)] = start_remote[EnumKey(f)]

\* C14 amended: with updates enabled, a keep-window file whose iteration is
\* over was copied exactly when its name was not enumerated, to prefix/f when a
\* prefix is configured and to f when none is; with updates off nothing is
\* copied; an enumerated name is neither uploaded nor removed, whatever the
\* size recorded for it.
C14_KeepStep ==
  /\ \A f \in handled \cap start_keep :
        (update /\ f \notin DOMAIN dest_keys) => f \in uploads
  /\ \A f \in uploads :
        /\ update /\ f \in start_keep /\ f \notin DOMAIN dest_keys
        /\ DestKey(backup_prefix, f) \in DOMAIN remote
        /\ DestKey(backup_prefix, f) =
             IF backup_prefix = None THEN MkKey("", f) ELSE MkKey(backup_prefix, f)
        /\ remote[DestKey(backup_prefix, f)].Size = start_local[f]
  /\ \A f \in DOMAIN dest_keys \cap start_keep :
        /\ f \notin uploads
        /\ EnumKey(f) \in DOMAIN remote
        /\ remote[EnumKey(f)] = start_remote[EnumKey(f)]

C14_Witness ==
  /\ update /\ pc = "expire" /\ rotation_lvl = 2
  /\ 1 \in uploads /\ 1 \in handled
  /\ 2 \in handled /\ 2 \in DOMAIN dest_keys
  /\ start_local[2] # start_remote[EnumKey(2)].Size

\* C15: with updates enabled, every expire-window file whose iteration was
\* entered is removed from the directory, and when its name was enumerated its
\* object is removed from the bucket, it is marked in dest_keys, and the run
\* goes on to the next file.
C15_ExpireStep ==
  (update /\ pc \in {"expire", "orphans", "done", "failed"}) =>
     \A f \in os_removed \cap start_expire :
        /\ f \notin DOMAIN local
        /\ f \in DOMAIN dest_keys =>
              /\ EnumKey(f) \notin DOMAIN remote
              /\ dest_keys[f] = Accounted
              /\ f \in handled

\* C17: in every state of a run, ended or not, the keep-window files are in
\* the directory and what the bucket held under their names is still there;
\* the files gone from the directory are those os.remove was called on, each
\* an empty file (rm_empty) or an expire-window file; s3remove is called for
\* expire-window files only, and an object gone from the bucket has the name
\* of an expire-window file.
C17_NoDataLoss ==
  /\ start_keep \subseteq DOMAIN local
  /\ \A k \in DOMAIN start_remote : k[2] \in start_keep => k \in DOMAIN remote
  /\ DOMAIN start_local \ DOMAIN local = os_removed
  /\ \A f \in os_removed :
        \/ rm_empty /\ start_local[f] = 0
        \/ f \in start_expire
  /\ s3_removes \subseteq start_expire
  /\ \A k \in DOMAIN start_remote \ DOMAIN remote : k[2] \in start_expire

C17_Witness ==
  /\ pc = "failed" /\ s3_removes # {}
  /\ \E f \in os_removed : start_local[f] = 0
  /\ \E f \in os_removed : f \in start_expire
  /\ \E f \in start_keep : EnumKey(f) \in DOMAIN start_remote

\* C18: once an expire-window file has been removed from the directory or
\* s3remove called, every keep-window file has had its iteration and, with
\* updates enabled, was enumerated or is in the bucket with the ETag
\* calculated for it; and a run ended by a failed copy has removed no
\* non-empty file and no object.
C18_KeepBeforeExpire ==
  /\ (s3_removes # {} \/ os_removed \cap start_expire # {}) =>
        \A f \in start_keep :
           /\ f \in handled
           /\ \/ f \in DOMAIN dest_keys
              \/ /\ f \in uploads
                 /\ DestKey(backup_prefix, f) \in DOMAIN remote
                 /\ remote[DestKey(backup_prefix, f)].ETag =
                      calculated_etag(f, start_local[f])
  /\ (pc = "failed" /\ error.type \in {"Exception", "ClientError"}) =>
        /\ \A f \in os_removed : start_local[f] = 0
        /\ s3_removes = {}
        /\ DOMAIN start_remote \subseteq DOMAIN remote

C18_Witness ==
  /\ prev.pc = "failed" /\ prev.copy_failed # 0
  /\ os_removed \cap start_expire # {}
  /\ uploads # {} /\ rotation_lvl = 2

\* C19: whatever the prefix, configured or not, the key an upload of f wrote
\* is one that the enumeration of backup lists and turns back into f, so the
\* next run finds f present.
C19_KeySpaceConsistent ==
  \A f \in uploads :
     /\ DestKey(backup_prefix, f) \in bucket_ls(remote, Format(backup_prefix))
     /\ StripPrefix(Format(backup_prefix), DestKey(backup_prefix, f)) = f

\* The k-th slice of chunk_size bytes of the file
Slice(k) ==
  SubSeq(source_file, (k - 1) * chunk_size + 1, Min(k * chunk_size, Len(source_file)))

\* ceil(L / C)
CeilDiv(L, C) == (L + C - 1) \div C

StreamEnded == cpc \in {"check", "returned", "raised"}

\* C11: whatever the size and disable_multipart, when the store reports the
\* digest of what it received in the mode it received it, the calculated
\* ETag equals it and s3copyfile returns without raising.
C11_DigestFormMatchesMode ==
  (cpc \in {"returned", "raised"} /\ head_etag = StoreETag(sent, multipart)) =>
     /\ calculated = head_etag
     /\ cpc = "returned"

\* C12: read_in_chunks over L bytes with chunk size C yields ceil(L/C) chunks,
\* the consecutive C-byte slices in order, none empty, all but the last of
\* length C, none at all when L = 0, and then stops; the md5s collected while
\* copying are those of the slices, so the calculated ETag is the etag of the
\* slices' digests.
C12_ChunksAreSlices ==
  /\ cpc = "stream" =>
        /\ Len(sent) <= CeilDiv(Len(source_file), chunk_size)
        /\ Flatten(sent) \o fin = source_file
  /\ StreamEnded =>
        /\ Len(sent) = CeilDiv(Len(source_file), chunk_size)
        /\ \A k \in 1 .. Len(sent) :
              /\ sent[k] = Slice(k)
              /\ Len(sent[k]) >= 1
              /\ k < Len(sent) => Len(sent[k]) = chunk_size
        /\ Len(source_file) = 0 => sent = << >>
        /\ sent = read_in_chunks(source_file, chunk_size)
        /\ md5s = [k \in 1 .. Len(sent) |-> md5(Slice(k))]
  /\ cpc \in {"returned", "raised"} =>
        calculated = etag([k \in 1 .. CeilDiv(Len(source_file), chunk_size) |->
                             md5(Slice(k))])

C12_Witness ==
  /\ cpc = "returned"
  /\ Len(sent) = 2 /\ Len(sent[1]) = 3 /\ Len(sent[2]) = 1
  /\ sent[1][1] # sent[1][2]

\* C16: the transfer is multi-chunk exactly when size > chunk_size and
\* disable_multipart is false; size = chunk_size is sent in one piece, and
\* size 0 is sent in one piece with no part written.
C16_ModeSelection ==
  cpc \notin {"off", "call"} =>
     /\ multipart <=> (arg_size > chunk_size /\ ~arg_disable_multipart)
     /\ arg_size = chunk_size => ~multipart
     /\ (arg_size = 0 /\ StreamEnded) => ~multipart /\ sent = << >> /\ md5s = << >>

C16_Witness ==
  /\ cpc = "returned" /\ ~arg_disable_multipart
  /\ arg_size = chunk_size /\ arg_size > 1 /\ ~multipart /\ Len(sent) = 1

\* The pages of one prefix that come before its first page without Contents
RECURSIVE UpToGap(_)
UpToGap(pgs) ==
  IF pgs = << >> \/ "Contents" \notin DOMAIN Head(pgs) THEN << >>
  ELSE << Head(pgs) >> \o UpToGap(Tail(pgs))

\* Their matching objects, page after page
RECURSIVE ObjectsOf(_)
ObjectsOf(pgs) ==
  IF pgs = << >> THEN << >>
  ELSE Matching(Head(pgs).Contents, arg_suffix) \o ObjectsOf(Tail(pgs))

\* The same for a sequence of prefixes, prefix after prefix
RECURSIVE ListingOf(_)
ListingOf(ps) ==
  IF ps = << >> THEN << >>
  ELSE ObjectsOf(UpToGap(pages[Head(ps)])) \o ListingOf(Tail(ps))

\* The prefixes the caller gave, in the caller's order
GivenPrefixes ==
  IF "str" \in DOMAIN arg_prefix THEN << arg_prefix.str >> ELSE arg_prefix.tuple

\* C13: bucket_ls never raises on a page without Contents; what it has yielded
\* is, prefix by prefix in the order given and with repetitions kept, the
\* objects of the pages that come before the prefix's first page without
\* Contents, and after such a page the following prefixes are still listed.
C13_PrefixOrderAndGaps ==
  /\ lpc # "raised"
  /\ lpc = "page" =>
        yielded = ListingOf(SubSeq(GivenPrefixes, 1, ls_prefix - 1))
                  \o ObjectsOf(SubSeq(pages[GivenPrefixes[ls_prefix]], 1, ls_page - 1))
  /\ lpc = "exhausted" => yielded = ListingOf(GivenPrefixes)

C13_Witness ==
  /\ lpc = "exhausted" /\ arg_suffix = << >>
  /\ GivenPrefixes = << "a/", "b/" >>
  /\ Len(pages["a/"]) = 2
  /\ "Contents" \in DOMAIN pages["a/"][1]
  /\ "Contents" \notin DOMAIN pages["a/"][2]
  /\ pages["b/"] = pages["a/"]
  /\ Len(yielded) = 2 /\ yielded[1] = yielded[2]

====
